---- MODULE Spec2Model ----
(***************************************************************************)
(* Model of update_citation_matrix.py: the two citation fetch functions,  *)
(* the regular-expression patch of the HTML file and the main script with  *)
(* its git calls.                                                          *)
(*                                                                         *)
(* A text is a sequence of atoms.  An atom is one of the tag strings the   *)
(* script's patterns mention, the label "Citations: ", a newline, or a     *)
(* single character of other text.  No atom is a proper part of a tag, so  *)
(* a pattern matches the text exactly where it matches the atoms.          *)
(***************************************************************************)
EXTENDS Integers, Sequences, FiniteSets, TLC

\* ------------------------------------------------------------------ bounds
MaxLen == 4          \* longest enumerated document of PatchSpec, in atoms
RunMaxLen == 3       \* longest enumerated document of Spec, in atoms
MaxApply == 2        \* applications of the patch in PatchSpec

\* ------------------------------------------------------------------ atoms
DIV_OPEN    == "<div id=\"citation-matrix\">"
DIV_OPEN_WS == "<div\tid=\"citation-matrix\">"  \* another match of <div\s+id=...>
DIV_CLOSE   == "</div>"
SPAN_OPEN   == "<span id=\"citation_count\">"
SPAN_CLOSE  == "</span>"
BODY_CLOSE  == "</body>"
LABEL       == "Citations: "
NEWLINE     == "\n"
TEXT        == "x"

Alphabet ==
  {DIV_OPEN, DIV_OPEN_WS, DIV_CLOSE, SPAN_OPEN, SPAN_CLOSE, BODY_CLOSE, NEWLINE, TEXT}

ZERO  == <<"0">>
ERROR == <<"E", "r", "r", "o", "r">>

\* The replacement text of both the container pattern and the insertion,
\* with n for the text of the inner element.
Region(n) == <<DIV_OPEN, LABEL, SPAN_OPEN>> \o n \o <<SPAN_CLOSE, DIV_CLOSE>>

\* ------------------------------------------------------------------ text helpers
\* Least index j >= i with s[j] = a, or 0.
RECURSIVE Find(_, _, _)
Find(s, a, i) ==
  IF i > Len(s) THEN 0
  ELSE IF s[i] = a THEN i
  ELSE Find(s, a, i + 1)

Contains(s, a) == Find(s, a, 1) # 0

\* s[i..j], empty when j < i.
Slice(s, i, j) == IF j < i THEN <<>> ELSE SubSeq(s, i, j)

\* <div\s+id="citation-matrix">
IsDivOpen(a) == a \in {DIV_OPEN, DIV_OPEN_WS}

\* ------------------------------------------------------------------ step 1
\* re.sub(r'<div\s+id="citation-matrix">.*?</div>', Region("0"), s, flags=re.DOTALL):
\* every leftmost non-overlapping match is replaced; with DOTALL the lazy .*?
\* runs to the first </div> after the opening tag, newlines included.
RECURSIVE SubContainerFrom(_, _)
SubContainerFrom(s, i) ==
  IF i > Len(s) THEN <<>>
  ELSE LET j == Find(s, DIV_CLOSE, i + 1) IN
       IF IsDivOpen(s[i]) /\ j # 0
       THEN Region(ZERO) \o SubContainerFrom(s, j + 1)
       ELSE <<s[i]>> \o SubContainerFrom(s, i + 1)

\* The same substitution with count=1: only the first match is replaced.
RECURSIVE SubContainerFirstFrom(_, _)
SubContainerFirstFrom(s, i) ==
  IF i > Len(s) THEN <<>>
  ELSE LET j == Find(s, DIV_CLOSE, i + 1) IN
       IF IsDivOpen(s[i]) /\ j # 0
       THEN Region(ZERO) \o Slice(s, j + 1, Len(s))
       ELSE <<s[i]>> \o SubContainerFirstFrom(s, i + 1)

SubContainerFirstOnly(s) == SubContainerFirstFrom(s, 1)

SubContainer(s) == SubContainerFrom(s, 1)

\* ------------------------------------------------------------------ step 2
\* s.replace('</body>', Region("0") + '</body>') without the count: every </body>.
RECURSIVE InsertEveryFrom(_, _)
InsertEveryFrom(s, i) ==
  IF i > Len(s) THEN <<>>
  ELSE IF s[i] = BODY_CLOSE
       THEN Region(ZERO) \o <<BODY_CLOSE>> \o InsertEveryFrom(s, i + 1)
       ELSE <<s[i]>> \o InsertEveryFrom(s, i + 1)

InsertBeforeEveryBody(s) ==
  IF Contains(s, SPAN_OPEN) THEN s ELSE InsertEveryFrom(s, 1)

\* if '<span id="citation_count">' not in s:
\*     s = s.replace('</body>', Region("0") + '</body>', 1)
InsertBeforeBody(s) ==
  IF Contains(s, SPAN_OPEN) THEN s
  ELSE LET b == Find(s, BODY_CLOSE, 1) IN
       IF b = 0 THEN s
       ELSE Slice(s, 1, b - 1) \o Region(ZERO) \o Slice(s, b, Len(s))

\* ------------------------------------------------------------------ step 3
\* re.sub(r'(<span id="citation_count">)(.*?)(</span>)', rf'\g<1>{n}\g<3>', s):
\* no DOTALL, so the lazy .*? stops at a newline and a match needs the first
\* </span> after the opening tag to come before any newline.
RECURSIVE SubCountFrom(_, _, _)
SubCountFrom(s, n, i) ==
  IF i > Len(s) THEN <<>>
  ELSE LET j == Find(s, SPAN_CLOSE, i + 1)
           k == Find(s, NEWLINE, i + 1)
       IN IF s[i] = SPAN_OPEN /\ j # 0 /\ (k = 0 \/ k > j)
          THEN <<SPAN_OPEN>> \o n \o <<SPAN_CLOSE>> \o SubCountFrom(s, n, j + 1)
          ELSE <<s[i]>> \o SubCountFrom(s, n, i + 1)

SubCount(s, n) == SubCountFrom(s, n, 1)

\* ------------------------------------------------------------------ step 4
\* if updated_html == html_content: return False ... return True, reporting a
\* change that is none.
ChangedAlways(updated, original) == TRUE

\* updated_html == html_content decides the return value and the write.
Changed(updated, original) == updated # original

\* ------------------------------------------------------------------ fetch
DigitSeq == <<"0", "1", "2", "3", "4", "5", "6", "7", "8", "9">>

RECURSIVE NatToChars(_)
NatToChars(n) ==
  IF n < 10 THEN <<DigitSeq[n + 1]>>
  ELSE NatToChars(n \div 10) \o <<DigitSeq[(n % 10) + 1]>>

\* str() of the value of the citation field.
PyStr(v) ==
  CASE v.type = "int"  -> IF v.int < 0 THEN <<"-">> \o NatToChars(-v.int)
                          ELSE NatToChars(v.int)
    [] v.type = "null" -> <<"N", "o", "n", "e">>
    [] OTHER           -> v.text

NoValue == [type |-> "none", int |-> 0, text |-> <<>>]

\* Values the citation field of a response may carry.
FieldValues ==
  { [type |-> "int", int |-> 42, text |-> <<>>],
    [type |-> "int", int |-> -5, text |-> <<>>],
    [type |-> "null", int |-> 0, text |-> <<>>],
    [type |-> "float", int |-> 0, text |-> <<"3", ".", "5">>],
    [type |-> "str", int |-> 0, text |-> <<"1", ",", "2", "3", "4">>] }

Answer(kind, status, has, value) ==
  [kind |-> kind, status |-> status, has |-> has, value |-> value]

NoResponse == Answer("pending", 0, FALSE, NoValue)

\* search_author_id: raises, yields no author, or yields an author record
\* with or without the 'citedby' field.
ScholarlyResponses ==
  { Answer("raise", 0, FALSE, NoValue),
    Answer("empty", 0, FALSE, NoValue),
    Answer("author", 0, FALSE, NoValue) }
  \cup { Answer("author", 0, TRUE, v) : v \in FieldValues }

\* requests.get: raises (or the body is no JSON), answers a non-200 status,
\* or answers 200 with a JSON object with or without citationCount.
SemanticResponses ==
  { Answer("raise", 0, FALSE, NoValue),
    Answer("http", 404, FALSE, NoValue),
    Answer("http", 200, FALSE, NoValue) }
  \cup { Answer("http", 200, TRUE, v) : v \in FieldValues }

fetch_citation_data_scholarly(r) ==
  IF r.kind = "raise" THEN ERROR
  ELSE IF r.kind = "author" /\ r.has THEN PyStr(r.value)
  ELSE ERROR

fetch_citation_data_semantic(r) ==
  IF r.kind = "raise" THEN ERROR
  ELSE IF r.status = 200
       THEN (IF r.has THEN PyStr(r.value) ELSE ERROR)
       ELSE ERROR

\* ------------------------------------------------------------------ state
VARIABLES
  pc,               \* position in the main script (Spec) or in the patch (PatchSpec)
  useSemantic,      \* USE_SEMANTIC_SCHOLAR (False at line 11; both settings are run)
  resp,             \* what the citation source answered
  data,             \* citation_data["citation_count"]
  disk,             \* the file at html_path: [exists, text]
  html_content,     \* the text read from the file
  fixed_html,       \* the text after step 1, then after step 2
  updated_html,     \* the text after step 3
  ret,              \* return value of fix_and_update_citation_matrix
  calls,            \* the external calls made so far, in order
  failed,           \* how many git commands exited non-zero
  applications      \* completed applications of the patch (PatchSpec)

vars ==
  <<pc, useSemantic, resp, data, disk, html_content, fixed_html, updated_html,
    ret, calls, failed, applications>>

\* Every text of at most n atoms.
SeqsUpTo(n) == UNION { [1..k -> Alphabet] : k \in 0..n }

\* The page of the spec's second scenario, and a page holding a stale region.
SampleDocs ==
  { Region(<<"4", "2">>),
    <<TEXT>> \o Region(<<"7">>) \o <<BODY_CLOSE>> }

NoFile == [exists |-> FALSE, text |-> <<>>]
File(t) == [exists |-> TRUE, text |-> t]

\* ------------------------------------------------------------------ main script
\* Exit codes a git command may end with; subprocess.run without check=True
\* returns them and the script drops them.
ExitCodes == {0, 1}

\* A script that stops at the first git command that fails.
StopOnFailure(rc, next) == IF rc # 0 THEN "aborted" ELSE next

\* subprocess.run(...) returns whatever the exit code: the script goes on.
AfterGit(rc, next) == next

\* A main block that looks at the file before it asks the citation source.
CheckThenFetch == <<"fix", "fetch">>

\* The two statements of the main block, in order: the fetch (lines 96-99),
\* then the call of fix_and_update_citation_matrix (line 101).
MainBlock == <<"fetch", "fix">>

\* Where the script goes after statement stmt, r being the value
\* fix_and_update_citation_matrix has returned ("none" before the call):
\* to the other statement, or into or past the if of line 101.
Goto(stmt, r) ==
  IF stmt = MainBlock[1] THEN MainBlock[2]
  ELSE IF r = "True" THEN "git_config_name" ELSE "done"

\* fix_and_update_citation_matrix answering True for a missing file.
MissingFileTrue == "True"

\* The return value for a missing file.
MissingFileResult == "False"

RunDocs == SeqsUpTo(RunMaxLen) \cup SampleDocs

Init ==
  /\ pc = MainBlock[1]
  /\ useSemantic \in BOOLEAN
  /\ disk \in {NoFile} \cup { File(t) : t \in RunDocs }
  /\ resp = NoResponse
  /\ data = <<>>
  /\ html_content = <<>>
  /\ fixed_html = <<>>
  /\ updated_html = <<>>
  /\ ret = "none"
  /\ calls = <<>>
  /\ failed = 0
  /\ applications = 0

\* data = fetch_citation_data_scholarly(SCHOLAR_USER_ID)
FetchScholarly ==
  /\ pc = "fetch"
  /\ ~useSemantic
  /\ \E r \in ScholarlyResponses :
       /\ resp' = r
       /\ data' = fetch_citation_data_scholarly(r)
  /\ calls' = Append(calls, "search_author_id")
  /\ pc' = Goto("fetch", ret)
  /\ UNCHANGED <<useSemantic, disk, html_content, fixed_html, updated_html, ret,
                 failed, applications>>

\* data = fetch_citation_data_semantic(SEMANTIC_SCHOLAR_ID)
FetchSemantic ==
  /\ pc = "fetch"
  /\ useSemantic
  /\ \E r \in SemanticResponses :
       /\ resp' = r
       /\ data' = fetch_citation_data_semantic(r)
  /\ calls' = Append(calls, "requests.get")
  /\ pc' = Goto("fetch", ret)
  /\ UNCHANGED <<useSemantic, disk, html_content, fixed_html, updated_html, ret,
                 failed, applications>>

\* fix_and_update_citation_matrix, the file missing: lines 50-52.
FixFileNotFound ==
  /\ pc = "fix"
  /\ ~disk.exists
  /\ calls' = Append(calls, "os.path.exists")
  /\ ret' = MissingFileResult
  /\ pc' = Goto("fix", MissingFileResult)
  /\ UNCHANGED <<useSemantic, resp, data, disk, html_content, fixed_html,
                 updated_html, failed, applications>>

\* fix_and_update_citation_matrix, the patched text equal to the text read:
\* lines 50-81.
FixNoChange ==
  /\ pc = "fix"
  /\ disk.exists
  /\ LET fixed == InsertBeforeBody(SubContainer(disk.text))
         updated == SubCount(fixed, data)
     IN /\ ~Changed(updated, disk.text)
        /\ html_content' = disk.text
        /\ fixed_html' = fixed
        /\ updated_html' = updated
  /\ calls' = calls \o <<"os.path.exists", "open:r">>
  /\ ret' = "False"
  /\ pc' = Goto("fix", "False")
  /\ UNCHANGED <<useSemantic, resp, data, disk, failed, applications>>

\* fix_and_update_citation_matrix, the patched text different: lines 50-87.
FixWrite ==
  /\ pc = "fix"
  /\ disk.exists
  /\ LET fixed == InsertBeforeBody(SubContainer(disk.text))
         updated == SubCount(fixed, data)
     IN /\ Changed(updated, disk.text)
        /\ html_content' = disk.text
        /\ fixed_html' = fixed
        /\ updated_html' = updated
        /\ disk' = File(updated)
  /\ calls' = calls \o <<"os.path.exists", "open:r", "open:w">>
  /\ ret' = "True"
  /\ pc' = Goto("fix", "True")
  /\ UNCHANGED <<useSemantic, resp, data, failed, applications>>

\* One subprocess.run of the main block: the command is run, its exit code
\* is returned and dropped.
Run(cmd, next) ==
  /\ \E rc \in ExitCodes :
       /\ failed' = IF rc # 0 THEN failed + 1 ELSE failed
       /\ pc' = AfterGit(rc, next)
  /\ calls' = Append(calls, cmd)
  /\ UNCHANGED <<useSemantic, resp, data, disk, html_content, fixed_html,
                 updated_html, ret, applications>>

GitConfigName ==
  /\ pc = "git_config_name"
  /\ Run("git config user.name", "git_config_email")

GitConfigEmail ==
  /\ pc = "git_config_email"
  /\ Run("git config user.email", "git_add")

GitAdd ==
  /\ pc = "git_add"
  /\ Run("git add", "git_commit")

GitCommit ==
  /\ pc = "git_commit"
  /\ Run("git commit", "git_push")

GitPush ==
  /\ pc = "git_push"
  /\ Run("git push", "done")

Next ==
  \/ FetchScholarly
  \/ FetchSemantic
  \/ FixFileNotFound
  \/ FixNoChange
  \/ FixWrite
  \/ GitConfigName
  \/ GitConfigEmail
  \/ GitAdd
  \/ GitCommit
  \/ GitPush

Spec == Init /\ [][Next]_vars

\* ------------------------------------------------------------------ the patch alone
\* fix_and_update_citation_matrix as a function of the text and the count,
\* one action per step, applied MaxApply times in a row to its own result.
PatchDocs == SeqsUpTo(MaxLen) \cup SampleDocs

PatchCounts == { <<"4", "2">>, ERROR }

PatchInit ==
  /\ pc = "normalize"
  /\ html_content \in PatchDocs
  /\ data \in PatchCounts
  /\ useSemantic = FALSE
  /\ resp = NoResponse
  /\ disk = File(html_content)
  /\ fixed_html = <<>>
  /\ updated_html = <<>>
  /\ ret = "none"
  /\ calls = <<>>
  /\ failed = 0
  /\ applications = 0

\* Step 1, lines 58-63.
Normalize ==
  /\ pc = "normalize"
  /\ fixed_html' = SubContainer(html_content)
  /\ pc' = "insert"
  /\ UNCHANGED <<useSemantic, resp, data, disk, html_content, updated_html, ret,
                 calls, failed, applications>>

\* Step 2, lines 65-70.
Insert ==
  /\ pc = "insert"
  /\ fixed_html' = InsertBeforeBody(fixed_html)
  /\ pc' = "update"
  /\ UNCHANGED <<useSemantic, resp, data, disk, html_content, updated_html, ret,
                 calls, failed, applications>>

\* Step 3, lines 73-77.
Update ==
  /\ pc = "update"
  /\ updated_html' = SubCount(fixed_html, data)
  /\ pc' = "compare"
  /\ UNCHANGED <<useSemantic, resp, data, disk, html_content, fixed_html, ret,
                 calls, failed, applications>>

\* Step 4, lines 79-87: the comparison, the write and the return value.
Compare ==
  /\ pc = "compare"
  /\ IF Changed(updated_html, html_content)
     THEN ret' = "True" /\ disk' = File(updated_html)
     ELSE ret' = "False" /\ disk' = disk
  /\ applications' = applications + 1
  /\ pc' = "returned"
  /\ UNCHANGED <<useSemantic, resp, data, html_content, fixed_html, updated_html,
                 calls, failed>>

\* The next application reads what the last one left in the file.
Again ==
  /\ pc = "returned"
  /\ applications < MaxApply
  /\ html_content' = disk.text
  /\ fixed_html' = <<>>
  /\ updated_html' = <<>>
  /\ ret' = "none"
  /\ pc' = "normalize"
  /\ UNCHANGED <<useSemantic, resp, data, disk, calls, failed, applications>>

PatchNext ==
  \/ Normalize
  \/ Insert
  \/ Update
  \/ Compare
  \/ Again

PatchSpec == PatchInit /\ [][PatchNext]_vars

\* ------------------------------------------------------------------ properties
Called(c) == \E i \in 1..Len(calls) : calls[i] = c

FetchCalls == {"search_author_id", "requests.get"}

GitSequence ==
  <<"git config user.name", "git config user.email", "git add", "git commit",
    "git push">>

IsGit(c) == \E i \in 1..Len(GitSequence) : GitSequence[i] = c

\* The git commands among the calls, in the order they were made.
GitCalls == SelectSeq(calls, IsGit)

\* How many git commands the script has behind it at each position.
GitDone ==
  CASE pc = "git_config_name"  -> 0
    [] pc = "git_config_email" -> 1
    [] pc = "git_add"          -> 2
    [] pc = "git_commit"       -> 3
    [] pc = "git_push"         -> 4
    [] pc = "done"             -> 5
    [] OTHER                   -> -1

\* Places of s where the canonical region with text n starts.
RegionStarts(s, n) ==
  { i \in 1..Len(s) :
      /\ i + Len(Region(n)) - 1 <= Len(s)
      /\ SubSeq(s, i, i + Len(Region(n)) - 1) = Region(n) }

CountRegions(s, n) == Cardinality(RegionStarts(s, n))

\* The inner elements of s: an opening tag with a closing tag after it.
SpanStarts(s) ==
  { i \in 1..Len(s) : s[i] = SPAN_OPEN /\ Find(s, SPAN_CLOSE, i + 1) # 0 }

SpanText(s, i) == Slice(s, i + 1, Find(s, SPAN_CLOSE, i + 1) - 1)

Digits == {"0", "1", "2", "3", "4", "5", "6", "7", "8", "9"}

IsDigits(n) == Len(n) > 0 /\ \A i \in 1..Len(n) : n[i] \in Digits

HasDivOpen(s) == \E i \in 1..Len(s) : IsDivOpen(s[i])

\* Start of the first occurrence of the container in s, or 0.
FirstContainer(s) ==
  LET starts == { i \in 1..Len(s) : IsDivOpen(s[i]) /\ Find(s, DIV_CLOSE, i + 1) # 0 }
  IN IF starts = {} THEN 0 ELSE CHOOSE i \in starts : \A k \in starts : i <= k

\* The container occurs in s more than once.
SeveralContainers(s) ==
  LET i == FirstContainer(s) IN
  /\ i # 0
  /\ FirstContainer(Slice(s, Find(s, DIV_CLOSE, i + 1) + 1, Len(s))) # 0

\* The citation source failed: transport failure, non-success status or no
\* citation field.
FetchFailed ==
  \/ resp.kind \in {"raise", "empty"}
  \/ resp.kind = "http" /\ resp.status # 200
  \/ resp.kind \in {"author", "http"} /\ ~resp.has

\* C1: a second application of the patch with the same count reports no
\* change.
C1_Idempotent ==
  (pc = "returned" /\ applications >= 2) => ret = "False"

\* C2: after the patch the document on disk holds exactly one canonical
\* region with the count, also when the container appeared more than once.
C2_ExactlyOneRegion ==
  (pc = "returned" /\ SeveralContainers(html_content)) =>
    CountRegions(disk.text, data) = 1

\* C3 as stated: a document without the container gets exactly one canonical
\* region with the count right before a </body>, and the patch reports a change.
C3_InsertsWhenNoContainer ==
  (pc = "returned" /\ ~HasDivOpen(html_content)) =>
    /\ ret = "True"
    /\ CountRegions(updated_html, data) = 1
    /\ \E b \in 1..Len(html_content) :
         /\ html_content[b] = BODY_CLOSE
         /\ updated_html = Slice(html_content, 1, b - 1) \o Region(data)
                             \o Slice(html_content, b, Len(html_content))

\* C3 amended: a document with no container, no inner opening tag and a
\* </body> gets exactly one canonical region with the count right before its
\* first </body>, nothing else changes, and the patch reports a change.
C3_InsertsBeforeFirstBody ==
  ( /\ pc = "returned"
    /\ ~HasDivOpen(html_content)
    /\ ~Contains(html_content, SPAN_OPEN)
    /\ Contains(html_content, BODY_CLOSE) ) =>
    LET b == CHOOSE k \in 1..Len(html_content) :
               /\ html_content[k] = BODY_CLOSE
               /\ \A m \in 1..(k - 1) : html_content[m] # BODY_CLOSE
    IN /\ ret = "True"
       /\ CountRegions(updated_html, data) = 1
       /\ updated_html = Slice(html_content, 1, b - 1) \o Region(data)
                           \o Slice(html_content, b, Len(html_content))

\* C3 witness: the spec's first scenario, <html><body></body></html> with 42.
C3_Witness ==
  /\ pc = "returned"
  /\ html_content = <<TEXT, BODY_CLOSE, TEXT>>
  /\ data = <<"4", "2">>
  /\ updated_html = <<TEXT>> \o Region(<<"4", "2">>) \o <<BODY_CLOSE, TEXT>>
  /\ ret = "True"

\* C4: when the fetch fails the count is the sentinel, the run patches the
\* document, and every inner element of the document then reads "Error".
C4_SentinelReachesDocument ==
  (FetchFailed /\ Called("open:r")) =>
    /\ data = ERROR
    /\ \A i \in SpanStarts(disk.text) : SpanText(disk.text, i) = ERROR

\* C5: with the file missing, fix_and_update_citation_matrix returns False,
\* nothing is read or written, no file appears and no git command is run.
C5_MissingFileNoEffects ==
  /\ [](~disk.exists =>
          /\ ret \in {"none", "False"}
          /\ ~Called("open:r")
          /\ ~Called("open:w")
          /\ GitCalls = <<>>
          /\ html_content = <<>>
          /\ updated_html = <<>>
          /\ (ret # "none" => pc = "done"))
  /\ [][~disk.exists => ~disk'.exists]_vars

\* C5 witness: a run that ended on the missing file.
C5_Witness ==
  /\ pc = "done"
  /\ ~disk.exists
  /\ Called("os.path.exists")
  /\ ret = "False"

\* C6: once the file has been read, it is written and git is run exactly
\* when the patched text differs from the text read; an equal text ends the
\* run with the file as it was, a different one is on disk before any git
\* command.
C6_WriteIffChanged ==
  (ret # "none" /\ Called("open:r")) =>
    LET differs == updated_html # html_content IN
    /\ Called("open:w") <=> differs
    /\ ret = "True" <=> differs
    /\ ~differs => (pc = "done" /\ GitCalls = <<>> /\ disk.text = html_content)
    /\ differs => /\ disk.text = updated_html
                  /\ pc = "done" => GitCalls = GitSequence
                  /\ \A i, j \in 1..Len(calls) :
                       (calls[i] = "open:w" /\ IsGit(calls[j])) => i < j

\* C6 witness: a run that rewrote the file and went through the git commands.
C6_Witness ==
  /\ pc = "done"
  /\ updated_html # html_content
  /\ disk.text = updated_html
  /\ Called("open:w")
  /\ GitCalls = GitSequence

\* C7: after the write the git commands are run in the fixed order whatever
\* their exit codes, and the script is never stuck before its end.
C7_GitBestEffort ==
  (ret = "True") =>
    /\ GitDone >= 0
    /\ GitCalls = SubSeq(GitSequence, 1, GitDone)
    /\ (pc # "done" => ENABLED Next)

\* C7 witness: every git command failed and the script still ran all of
\* them and ended.
C7_Witness ==
  /\ pc = "done"
  /\ failed = Len(GitSequence)
  /\ GitCalls = GitSequence

\* C8 as stated: no fetch before the existence check, so no fetch when the
\* file is missing.
C8_CheckBeforeFetch ==
  /\ \A i \in 1..Len(calls) :
       calls[i] \in FetchCalls => \E j \in 1..(i - 1) : calls[j] = "os.path.exists"
  /\ ~disk.exists => \A i \in 1..Len(calls) : calls[i] \notin FetchCalls

\* C8 amended: the fetch is the first call of every run, made once, before
\* the existence check, whether or not the file exists.
C8_FetchBeforeCheck ==
  /\ calls # <<>> => calls[1] \in FetchCalls
  /\ \A i \in 2..Len(calls) : calls[i] \notin FetchCalls
  /\ ret # "none" => Called("os.path.exists")

\* C8 witness: a run on a missing file: the fetch, then the failed check.
C8_Witness ==
  /\ pc = "done"
  /\ ~disk.exists
  /\ calls = <<"search_author_id", "os.path.exists">>

\* C9: the fetched count is a string of decimal digits or "Error".
C9_DigitsOrError ==
  (resp # NoResponse) => (IsDigits(data) \/ data = ERROR)

====
